---- MODULE Spec2Model ----
(***************************************************************************)
(* Model of the cooperative particle-filter localization engine            *)
(* (johankre/toa-particle-filter).                                         *)
(*                                                                         *)
(* Numbers.  The program computes in f64.  The model computes in exact     *)
(* rationals <<n, d>> (d > 0, lowest terms) extended with the two IEEE     *)
(* values the program can produce from them: NaN == <<0, 0>> (0.0 / 0.0)   *)
(* and Inf == <<1, 0>> (x / 0.0, x > 0).  Comparisons with NaN are false,  *)
(* arithmetic on NaN gives NaN, as in IEEE 754.                            *)
(*                                                                         *)
(* Space.  Positions are Vector3<f64> in the program; every operation the  *)
(* model covers treats the three axes alike and reads positions only       *)
(* through the Euclidean norm of a difference, so the model keeps one      *)
(* axis: positions are rationals and the norm is the absolute value.       *)
(***************************************************************************)
EXTENDS Integers, Sequences, FiniteSets, TLC

(***************************************************************************)
(* Bounds of the model.                                                    *)
(***************************************************************************)
NumParticles == 2       \* N, the num_particles every filter is created with
NumAgents == 2          \* swarm elements of the simulation
NumAnchors == 2         \* anchors of the simulation
MaxTimeSteps == 2       \* largest time_steps passed to Simulation::run
MaxOps == 4             \* longest sequence of direct filter operations explored
UnderflowAt == 4        \* residual^2 (in likelihood units) from which exp() is 0.0
MAX_TRAJECTORY_HISTORY == 2     \* points kept per trajectory (1000 in the program)
ChannelCapacity == 2    \* bound of the command channel (1000 in the program)
MaxCommands == 4        \* most commands logged before the visualizer is dropped

Agents == 1..NumAgents
Anchors == 1..NumAnchors

(***************************************************************************)
(* f64 arithmetic on extended rationals.                                   *)
(***************************************************************************)
NaN == <<0, 0>>
Inf == <<1, 0>>
Zero == <<0, 1>>
One == <<1, 1>>

Abs(x) == IF x < 0 THEN -x ELSE x

RECURSIVE Gcd(_, _)
Gcd(a, b) == IF b = 0 THEN a ELSE Gcd(b, a % b)

IsNaN(x) == x = NaN
IsFinite(x) == x[2] > 0

Rat(n, d) ==
    IF d = 0 THEN NaN
    ELSE LET s == IF d < 0 THEN -1 ELSE 1
             g == Gcd(Abs(n), Abs(d))
         IN  <<(s * n) \div g, (s * d) \div g>>

FromInt(k) == <<k, 1>>

FAdd(x, y) ==
    IF ~IsFinite(x) \/ ~IsFinite(y)
    THEN (IF x = Inf /\ y # NaN THEN Inf ELSE IF y = Inf /\ x # NaN THEN Inf ELSE NaN)
    ELSE LET g == Gcd(x[2], y[2])
         IN  Rat(x[1] * (y[2] \div g) + y[1] * (x[2] \div g), (x[2] \div g) * y[2])

FSub(x, y) ==
    IF ~IsFinite(x) \/ ~IsFinite(y) THEN NaN
    ELSE LET g == Gcd(x[2], y[2])
         IN  Rat(x[1] * (y[2] \div g) - y[1] * (x[2] \div g), (x[2] \div g) * y[2])

FMul(x, y) ==
    IF ~IsFinite(x) \/ ~IsFinite(y) THEN NaN
    ELSE LET g == Gcd(Abs(x[1]), y[2])
             h == Gcd(Abs(y[1]), x[2])
         IN  Rat((x[1] \div g) * (y[1] \div h), (x[2] \div h) * (y[2] \div g))

\* x / y: 0/0 is NaN, x/0 is +Inf for x > 0 (the program never divides a
\* negative number by zero).
FDiv(x, y) ==
    IF ~IsFinite(x) \/ ~IsFinite(y) THEN NaN
    ELSE IF y[1] = 0 THEN (IF x[1] = 0 THEN NaN ELSE Inf)
    ELSE LET g == Gcd(Abs(x[1]), Abs(y[1]))
             h == Gcd(x[2], y[2])
         IN  Rat((x[1] \div g) * (y[2] \div h), (x[2] \div h) * (y[1] \div g))

FAbs(x) == IF IsFinite(x) THEN <<Abs(x[1]), x[2]>> ELSE x

\* x > y, x >= y on f64: false whenever an operand is NaN.
FGt(x, y) == ~IsNaN(x) /\ ~IsNaN(y) /\ x[1] * y[2] > y[1] * x[2]
FGe(x, y) == ~IsNaN(x) /\ ~IsNaN(y) /\ x[1] * y[2] >= y[1] * x[2]

\* floor of a finite non-negative rational
Floor(x) == x[1] \div x[2]

RECURSIVE Pow2(_)
Pow2(k) == IF k = 0 THEN 1 ELSE 2 * Pow2(k - 1)

(***************************************************************************)
(* Particle and ParticleFilter.                                            *)
(***************************************************************************)
Particle(position, weight) == [position |-> position, weight |-> weight]

\* f64 sum of the weights of a particle sequence, left to right
RECURSIVE SumWeights(_)
SumWeights(ps) ==
    IF ps = <<>> THEN Zero
    ELSE FAdd(SumWeights(SubSeq(ps, 1, Len(ps) - 1)), ps[Len(ps)].weight)

\* Mutation of new: every particle gets the weight 1.0.
NewFilterUnitWeight(samples) ==
    [q \in 1..Len(samples) |-> Particle(samples[q], One)]

\* ParticleFilter::new: num_particles samples of the enclosure, weight 1/N each
NewFilter(samples) ==
    [q \in 1..Len(samples) |-> Particle(samples[q], FDiv(One, FromInt(Len(samples))))]

\* ParticleFilter::normalize_weights
normalize_weights(ps) ==
    LET sum == SumWeights(ps)
    IN  [q \in 1..Len(ps) |-> Particle(ps[q].position, FDiv(ps[q].weight, sum))]

\* ParticleFilter::update_position
update_position(ps, velocity) ==
    [q \in 1..Len(ps) |-> Particle(FAdd(ps[q].position, velocity), ps[q].weight)]

\* Mutation of the likelihood: the sign of the exponent is lost, exp(+...).
LikelihoodSignSlip(err2) ==
    IF IsNaN(err2) THEN NaN
    ELSE IF ~IsFinite(err2) THEN Inf
    ELSE FromInt(Pow2(Floor(err2)))

\* f64 (-0.5 * err * err / var).exp(), given err2 = err * err / var.  exp is
\* not rational; the model replaces it by the step function 2^-floor(err2),
\* which keeps what the program's behaviour rests on: the value is 1 at
\* residual 0, lies in [0, 1], does not increase with the residual, and
\* underflows to exactly 0.0 from UnderflowAt on; exp(-inf) is 0.0 and
\* exp(NaN) is NaN.
Likelihood(err2) ==
    IF IsNaN(err2) THEN NaN
    ELSE IF ~IsFinite(err2) \/ Floor(err2) >= UnderflowAt THEN Zero
    ELSE Rat(1, Pow2(Floor(err2)))

\* ParticleFilter::update_weights
update_weights(ps, ranging, pos, sigma) ==
    LET var == FMul(sigma, sigma)
    IN  [q \in 1..Len(ps) |->
            LET pred_range == FAbs(FSub(ps[q].position, pos))
                err == FSub(ranging, pred_range)
                lik == Likelihood(FDiv(FMul(err, err), var))
            IN  Particle(ps[q].position, FMul(ps[q].weight, lik))]

\* Mutation of the cumulative weights: the last entry is not forced to 1.0.
cum_weights_unforced(ps) ==
    [q \in 1..Len(ps) |-> SumWeights(SubSeq(ps, 1, q))]

\* resample, lines 131-140: cumulative weights, the last entry forced to 1.0
cum_weights(ps) ==
    [q \in 1..Len(ps) |->
        IF q = Len(ps) THEN One ELSE SumWeights(SubSeq(ps, 1, q))]

\* resample, line 129: draw point j (0-based) of n
DrawPoint(u0, j, n) == FAdd(u0, FDiv(FromInt(j), FromInt(n)))

\* resample, lines 146-148: the cursor i (0-based) advanced for draw point pos
RECURSIVE Advance(_, _, _)
Advance(cum, i, pos) ==
    IF i + 1 < Len(cum) /\ FGt(pos, cum[i + 1])
    THEN Advance(cum, i + 1, pos) ELSE i

\* resample, lines 144-153: the cursor after draw points 0..j (0-based index)
RECURSIVE Cursor(_, _, _)
Cursor(ps, u0, j) ==
    Advance(cum_weights(ps),
            IF j = 0 THEN 0 ELSE Cursor(ps, u0, j - 1),
            DrawPoint(u0, j, Len(ps)))

\* resample, lines 142-153: unique_draws after draw points 0..j, as 1-based
\* indices into the old particles, in the order of their first selection
RECURSIVE UniqueDraws(_, _, _)
UniqueDraws(ps, u0, j) ==
    IF j < 0 THEN <<>>
    ELSE LET before == UniqueDraws(ps, u0, j - 1)
             i == Cursor(ps, u0, j) + 1
         IN  IF \E x \in DOMAIN before : before[x] = i
             THEN before ELSE Append(before, i)

\* what one resample did: the start offset, the particles before it and, for
\* every draw point, the cursor i (0-based) at which line 150 reads the particle
Draws(a, ps, u0) ==
    [agent |-> a, u0 |-> u0, before |-> ps,
     cursor |-> [x \in 1..Len(ps) |-> Cursor(ps, u0, x - 1)]]

\* Mutation of resample: every draw point contributes a copy.
resample_keep_duplicates(ps, u0) ==
    IF Len(ps) = 0 THEN ps
    ELSE normalize_weights([x \in 1..Len(ps) |-> ps[Cursor(ps, u0, x - 1) + 1]])

\* ParticleFilter::resample with start offset u0
resample(ps, u0) ==
    IF Len(ps) = 0 THEN ps
    ELSE LET draws == UniqueDraws(ps, u0, Len(ps) - 1)
         IN  normalize_weights([x \in 1..Len(draws) |-> ps[draws[x]]])

\* f64 sqrt: exact on squares of rationals, rounded down component-wise otherwise
RECURSIVE ISqrtFrom(_, _)
ISqrtFrom(n, r) == IF (r + 1) * (r + 1) > n THEN r ELSE ISqrtFrom(n, r + 1)

FSqrt(x) == IF ~IsFinite(x) THEN x ELSE Rat(ISqrtFrom(x[1], 0), ISqrtFrom(x[2], 0))

\* ParticleFilter::ess as the specification defines it: 1 / sum(w_i^2)
RECURSIVE SumSquares(_)
SumSquares(ps) ==
    IF ps = <<>> THEN Zero
    ELSE FAdd(SumSquares(SubSeq(ps, 1, Len(ps) - 1)),
              FMul(ps[Len(ps)].weight, ps[Len(ps)].weight))

ess(ps) == FDiv(One, SumSquares(ps))

\* posterior mean: sum of weight * position
RECURSIVE posterior_mean(_)
posterior_mean(ps) ==
    IF ps = <<>> THEN Zero
    ELSE FAdd(posterior_mean(SubSeq(ps, 1, Len(ps) - 1)),
              FMul(ps[Len(ps)].weight, ps[Len(ps)].position))

(***************************************************************************)
(* WhiteNoiseAcceleration, the dynamics model of a swarm element.          *)
(***************************************************************************)
\* WhiteNoiseAcceleration::new; accel_noise is Normal(mean_a, sigma_a)
WhiteNoiseAcceleration(p, v, mean_a, sigma_a) ==
    [pos |-> p, vel |-> v, accel_noise |-> [mean |-> mean_a, std_dev |-> sigma_a]]

\* Normal::sample: mean + std_dev * z for a standard normal sample z
sample(normal, z) == FAdd(normal.mean, FMul(normal.std_dev, FromInt(z)))

\* Mutation of step: the acceleration term is not scaled by dt.
step_unscaled_noise(m, dt, a) ==
    LET new_pos == FAdd(m.pos, FAdd(FMul(m.vel, dt), FMul(Rat(1, 2), a)))
        new_vel == FAdd(m.vel, a)
    IN  [m EXCEPT !.pos = new_pos, !.vel = new_vel]

\* Mutation of step: the velocity is updated first, the position from it.
step_velocity_first(m, dt, a) ==
    LET new_vel == FAdd(m.vel, FMul(a, dt))
        new_pos == FAdd(m.pos, FAdd(FMul(new_vel, dt),
                                    FMul(FMul(FMul(Rat(1, 2), a), dt), dt)))
    IN  [m EXCEPT !.pos = new_pos, !.vel = new_vel]

\* WhiteNoiseAcceleration::step with the acceleration a it sampled: line 68
\* reads self.vel before line 69 assigns it
step(m, dt, a) ==
    LET new_pos == FAdd(m.pos, FAdd(FMul(m.vel, dt),
                                    FMul(FMul(FMul(Rat(1, 2), a), dt), dt)))
        new_vel == FAdd(m.vel, FMul(a, dt))
    IN  [m EXCEPT !.pos = new_pos, !.vel = new_vel]

\* Mutation of predict_next_state: it starts from the model's own state.
predict_next_state_own_state(m, dt, position, velocity, a) ==
    FAdd(FAdd(m.pos, FMul(m.vel, dt)), FMul(FMul(FMul(Rat(1, 2), a), dt), dt))

\* WhiteNoiseAcceleration::predict_next_state with the acceleration a it sampled
predict_next_state(m, dt, position, velocity, a) ==
    FAdd(FAdd(position, FMul(velocity, dt)), FMul(FMul(FMul(Rat(1, 2), a), dt), dt))

(***************************************************************************)
(* The scenario: what main() constructs, on one axis.                      *)
(***************************************************************************)
None == <<>>                                    \* Option::None
Some(v) == <<v>>                                \* Option::Some(v)

Enclosure == {FromInt(1), FromInt(3)}           \* points the enclosure can sample
TruePos0 == <<FromInt(1), FromInt(3)>>          \* initial true positions
Velocity0 == <<FromInt(1), FromInt(-1)>>        \* true velocities
AgentStd == <<Rat(3, 5), Rat(4, 5)>>            \* sd_ranging_noise of the agents
AnchorPos == <<FromInt(0), FromInt(4)>>         \* anchor positions
AnchorStd == <<Rat(4, 5), Zero>>                \* sd_ranging_noise of the anchors
Tau == Rat(1, 2)                                \* ess_tau, the resampling threshold

AgentPos(a) == TruePos0[((a - 1) % Len(TruePos0)) + 1]
AgentVel(a) == Velocity0[((a - 1) % Len(Velocity0)) + 1]
AgentSd(a) == AgentStd[((a - 1) % Len(AgentStd)) + 1]
AnchorAt(k) == AnchorPos[((k - 1) % Len(AnchorPos)) + 1]
AnchorSd(k) == AnchorStd[((k - 1) % Len(AnchorStd)) + 1]

\* samples of the random sources
RandomUnit == {Zero, Rat(1, 2)}                 \* rng.random::<f64>(), in [0, 1)
StdNormal == {0, 3}                             \* Normal(0, 1) samples; noise = sigma * z
VelocityNoise == {Zero, One}                    \* transmission noise samples

\* inputs of the direct filter operations
RangingInputs == {FromInt(1), FromInt(3)}
ReferenceInputs == {FromInt(0), FromInt(4)}
VelocityInputs == {FromInt(1)}

\* inputs of the dynamics model: construction, step and predict_next_state
ModelPositions == {FromInt(1), FromInt(3)}
ModelVelocities == {FromInt(1), FromInt(-1)}
AccelMeans == {Zero, One}
AccelStdDevs == {Zero, Rat(1, 2)}
DtInputs == {Zero, Rat(1, 2)}
PredictPositions == {Zero, FromInt(5)}
PredictVelocities == {FromInt(2)}

\* inputs of the likelihood law: anchor layouts and particle samples with an
\* anchor among the particles, as the spheres around an anchor cut the enclosure
LayoutPositions == {FromInt(0), FromInt(2), FromInt(4)}
SamplePositions == {FromInt(1), FromInt(2), FromInt(3)}

\* the trajectories the visualizer keeps: entity paths of capture_frame
Paths == {"est_position/trajectory", "true_position/trajectory"}

\* points handed to LogTrajectory: 5/4 and 1 are the same f32, NaN is the
\* estimate of a filter whose weights are NaN
StartPoints == {FromInt(1)}
EndPoints == {FromInt(1), Rat(5, 4), FromInt(2), NaN}

\* inputs of the builder: the lists handed to swarm_elements() and anchors()
Lists(S) ==
    UNION {{l \in [1..n -> S] : \A x, y \in 1..n : l[x] = l[y] => x = y} :
           n \in 0..Cardinality(S)}
ElementLists == Lists(Agents)
AnchorLists == Lists(Anchors)

VARIABLES
    particles,      \* particles[a]: particle_filter.particles of agent a
    lastOp,         \* lastOp[a]: the last operation applied to agent a's filter
    truePos,        \* true_position of each agent
    est,            \* est_position of each agent
    prevEst,        \* prev_positions.est_position of each agent
    prevTrue,       \* prev_positions.true_position of each agent
    visualizer,     \* Simulation.visualizer.is_some()
    snapshot,       \* the particle sets handed to the visualizer by capture_frame
    pc,             \* position of Simulation::run
    frame,          \* the loop variable frame
    timeSteps,      \* the argument time_steps
    i, j, k,        \* loop indices: swarm element, peer, anchor
    log,            \* the operations of the current timestep, in order
    opCount,        \* number of direct operations applied so far
    lastUpdate,     \* the arguments of the last update_weights call of run
    worker,         \* the visualizer's worker thread is running (rx is open)
    dynamics_model, \* a WhiteNoiseAcceleration: pos, vel, accel_noise
    call,           \* the last call on dynamics_model: arguments and result
    builder,        \* a SimulationBuilder: swarm_elements, anchors, visualizer
    simulation,     \* what SimulationBuilder::build produced
    anchors,        \* the positions of the anchors, in the order of the list
    lastResample,   \* the last resample: start offset, particles before, cursors
    channel,        \* the commands queued in the visualizer's sync_channel
    tx,             \* RerunVisualization.tx.is_some(): the sending side is open
    traj_points,    \* the worker's traj_points: path -> stored points
    sent,           \* every command sent so far, in order
    processed,      \* every command the worker has processed so far, in order
    dropPhase       \* Drop for RerunVisualization: "live", "joining", "returned"

dynVars == <<dynamics_model, call>>
vizVars == <<channel, tx, traj_points, sent, processed, dropPhase>>
buildVars == <<builder, simulation>>

vars == <<particles, lastOp, truePos, est, prevEst, prevTrue, visualizer, snapshot,
          pc, frame, timeSteps, i, j, k, log, opCount, lastUpdate, worker,
          dynVars, buildVars, anchors, vizVars, lastResample>>

simVars == <<truePos, est, prevEst, prevTrue, visualizer, snapshot,
             pc, frame, timeSteps, i, j, k, log, lastUpdate, worker>>

runVars == <<truePos, est, prevEst, prevTrue, visualizer, snapshot,
             pc, frame, timeSteps, i, j, k, log, lastUpdate>>

\* the last call on a dynamics model
Call(op, dt, a, position, velocity, before, result) ==
    [op |-> op, dt |-> dt, a |-> a, position |-> position, velocity |-> velocity,
     before |-> before, result |-> result]

\* WhiteNoiseAcceleration::new(p, v, mean_a, sigma_a) has just returned
NewModel(p, v, mean_a, sigma_a) ==
    /\ dynamics_model = WhiteNoiseAcceleration(p, v, mean_a, sigma_a)
    /\ call = Call("new", Zero, Zero, p, v, dynamics_model, Zero)

\* the arguments of an update_weights call of run
Update(a, about, from, noise_std, reference, sigma) ==
    [agent |-> a, about |-> about, from |-> from, noise_std |-> noise_std,
     reference |-> reference, sigma |-> sigma]

\* SimulationBuilder::default
DefaultBuilder == [swarm_elements |-> None, anchors |-> None, visualizer |-> FALSE]

\* the Simulation that build returns, or its panic
Built(status, es, as, viz) ==
    [status |-> status, swarm_elements |-> es, anchors |-> as, visualizer |-> viz]

\* SimulationBuilder::build
build(b) ==
    IF b.swarm_elements = None \/ b.anchors = None
    THEN Built("panicked", <<>>, <<>>, FALSE)
    ELSE Built("built", b.swarm_elements[1], b.anchors[1], b.visualizer)

\* SwarmElement::new for every agent; the filters of main()
InitElements(smps) ==
    /\ particles \in [Agents -> {NewFilter(smp) : smp \in smps}]
    /\ lastOp = [a \in Agents |-> "new"]
    /\ truePos = [a \in Agents |-> AgentPos(a)]
    /\ est = [a \in Agents |-> Zero]
    /\ prevEst = [a \in Agents |-> None]
    /\ prevTrue = [a \in Agents |-> None]
    /\ snapshot = None
    /\ pc = "idle"
    /\ frame = 0
    /\ timeSteps = 0
    /\ i = 1 /\ j = 1 /\ k = 1
    /\ log = <<>>
    /\ opCount = 0
    /\ lastUpdate = None
    /\ lastResample = None
    /\ worker = visualizer
    /\ tx = visualizer
    /\ channel = <<>>
    /\ traj_points = [p \in Paths |-> <<>>]
    /\ sent = <<>>
    /\ processed = <<>>
    /\ dropPhase = "live"

\* main(): the swarm elements, the anchors and the simulation built from them
Init ==
    /\ visualizer \in BOOLEAN
    /\ InitElements([1..NumParticles -> Enclosure])
    /\ NewModel(AgentPos(2), AgentVel(2), Zero, Zero)
    /\ builder = [swarm_elements |-> Some([a \in Agents |-> a]),
                  anchors |-> Some([x \in Anchors |-> x]),
                  visualizer |-> visualizer]
    /\ simulation = build(builder)
    /\ anchors = [x \in Anchors |-> AnchorAt(x)]

(***************************************************************************)
(* Direct use of the ParticleFilter operations, in any order.              *)
(***************************************************************************)
ApplyOp(a, op, ps) ==
    /\ pc = "idle"
    /\ opCount < MaxOps
    /\ particles' = [particles EXCEPT ![a] = ps]
    /\ lastOp' = [lastOp EXCEPT ![a] = op]
    /\ opCount' = opCount + 1
    /\ UNCHANGED <<simVars, dynVars, buildVars, anchors, vizVars>>

OpUpdateWeights(a) ==
    /\ \E ranging \in RangingInputs, pos \in ReferenceInputs :
        ApplyOp(a, "update_weights", update_weights(particles[a], ranging, pos, One))
    /\ UNCHANGED lastResample

OpNormalizeWeights(a) ==
    /\ ApplyOp(a, "normalize_weights", normalize_weights(particles[a]))
    /\ UNCHANGED lastResample

OpUpdatePosition(a) ==
    /\ \E v \in VelocityInputs :
        ApplyOp(a, "update_position", update_position(particles[a], v))
    /\ UNCHANGED lastResample

OpResample(a) ==
    \E r \in RandomUnit :
        LET u0 == FDiv(r, FromInt(Len(particles[a])))
        IN  /\ ApplyOp(a, "resample", resample(particles[a], u0))
            /\ lastResample' = Draws(a, particles[a], u0)

NextFilter ==
    \/ OpUpdateWeights(1)
    \/ OpNormalizeWeights(1)
    \/ OpUpdatePosition(1)
    \/ OpResample(1)

\* the filter under test is created from any samples; the other elements'
\* filters, which no operation touches, from one sample each
InitFilter ==
    /\ Init
    /\ visualizer = FALSE
    /\ \A a \in Agents \ {1} :
          particles[a] = NewFilter([q \in 1..NumParticles |-> FromInt(1)])

SpecFilter == InitFilter /\ [][NextFilter]_vars

(***************************************************************************)
(* Simulation::run, one action per operation it calls.                     *)
(***************************************************************************)
Event(op, a, about) == [op |-> op, agent |-> a, about |-> about]

\* Mutation of the loop body: it starts with the truth advance.
EnterFrameMoveFirst(f, ts) ==
    /\ frame' = f
    /\ log' = <<>>
    /\ i' = 1 /\ j' = 1 /\ k' = 1
    /\ pc' = IF f >= ts THEN "done" ELSE "move"

\* start of the loop body for frame f (line 28), or the end of run
EnterFrame(f, ts) ==
    /\ frame' = f
    /\ log' = <<>>
    /\ IF f >= ts THEN pc' = "done" /\ i' = 1 /\ j' = 1 /\ k' = 1
       ELSE IF NumAgents >= 2 THEN pc' = "pair" /\ i' = 1 /\ j' = 2 /\ k' = 1
       ELSE pc' = "update_anchor" /\ i' = 1 /\ j' = 1 /\ k' = 1

\* Simulation::run(time_steps), line 26-28
Run ==
    /\ pc = "idle"
    /\ opCount = 0
    /\ \E ts \in 0..MaxTimeSteps : timeSteps' = ts /\ EnterFrame(0, ts)
    /\ UNCHANGED <<particles, lastOp, truePos, est, prevEst, prevTrue, visualizer,
                   snapshot, opCount, lastUpdate, worker, dynVars, buildVars, anchors,
                   vizVars, lastResample>>

\* Measurements::ranging: true distance plus a Normal(0, std) sample
ranging(p1, p2, std, z) == FAdd(FAbs(FSub(p1, p2)), FMul(std, FromInt(z)))

\* Mutation of the combined deviation: the deviations are added, not the
\* variances.
combined_std_sum(sd_rx, sd_tx) == FAdd(sd_rx, sd_tx)

\* lines 51-53 and 63-66
combined_std(sd_rx, sd_tx) == FSqrt(FAdd(FMul(sd_rx, sd_rx), FMul(sd_tx, sd_tx)))

\* Mutation of the pairwise update: the peer's true position is the reference.
PairwiseUpdateTruthReference ==
    /\ pc = "pair"
    /\ \E z \in StdNormal :
        LET sigma == combined_std(AgentSd(i), AgentSd(j))
            r == ranging(truePos[i], truePos[j], sigma, z)
        IN  /\ particles' = [particles EXCEPT
                    ![i] = update_weights(particles[i], r, truePos[j], sigma)]
            /\ lastUpdate' = Update(i, "peer", j, sigma, truePos[j], sigma)
    /\ lastOp' = [lastOp EXCEPT ![i] = "update_weights"]
    /\ log' = Append(log, Event("update_weights", i, "peer"))
    /\ LET nj == IF j + 1 = i THEN j + 2 ELSE j + 1
       IN  IF nj <= NumAgents THEN i' = i /\ j' = nj /\ pc' = "pair"
           ELSE IF i + 1 <= NumAgents THEN i' = i + 1 /\ j' = 1 /\ pc' = "pair"
           ELSE i' = 1 /\ j' = 1 /\ pc' = "update_anchor"
    /\ UNCHANGED <<truePos, est, prevEst, prevTrue, visualizer, snapshot, frame,
                   timeSteps, k, opCount, worker, dynVars, buildVars, anchors,
                   vizVars, lastResample>>

\* Mutation of the pairwise update: the two halves of split_at_mut are taken
\* for each other and the peer's filter is updated.
PairwiseUpdatePeerFilter ==
    /\ pc = "pair"
    /\ \E z \in StdNormal :
        LET sigma == combined_std(AgentSd(i), AgentSd(j))
            r == ranging(truePos[i], truePos[j], sigma, z)
        IN  /\ particles' = [particles EXCEPT
                    ![j] = update_weights(particles[j], r, est[j], sigma)]
            /\ lastUpdate' = Update(i, "peer", j, sigma, est[j], sigma)
    /\ lastOp' = [lastOp EXCEPT ![j] = "update_weights"]
    /\ log' = Append(log, Event("update_weights", i, "peer"))
    /\ LET nj == IF j + 1 = i THEN j + 2 ELSE j + 1
       IN  IF nj <= NumAgents THEN i' = i /\ j' = nj /\ pc' = "pair"
           ELSE IF i + 1 <= NumAgents THEN i' = i + 1 /\ j' = 1 /\ pc' = "pair"
           ELSE i' = 1 /\ j' = 1 /\ pc' = "update_anchor"
    /\ UNCHANGED <<truePos, est, prevEst, prevTrue, visualizer, snapshot, frame,
                   timeSteps, k, opCount, worker, dynVars, buildVars, anchors,
                   vizVars, lastResample>>

\* lines 29-60: the pairwise update for the current (i, j), i # j
PairwiseUpdate ==
    /\ pc = "pair"
    /\ \E z \in StdNormal :
        LET sigma == combined_std(AgentSd(i), AgentSd(j))
            r == ranging(truePos[i], truePos[j], sigma, z)
        IN  /\ particles' = [particles EXCEPT
                    ![i] = update_weights(particles[i], r, est[j], sigma)]
            /\ lastUpdate' = Update(i, "peer", j, sigma, est[j], sigma)
    /\ lastOp' = [lastOp EXCEPT ![i] = "update_weights"]
    /\ log' = Append(log, Event("update_weights", i, "peer"))
    /\ LET nj == IF j + 1 = i THEN j + 2 ELSE j + 1
       IN  IF nj <= NumAgents THEN i' = i /\ j' = nj /\ pc' = "pair"
           ELSE IF i + 1 <= NumAgents THEN i' = i + 1 /\ j' = 1 /\ pc' = "pair"
           ELSE i' = 1 /\ j' = 1 /\ pc' = "update_anchor"
    /\ UNCHANGED <<truePos, est, prevEst, prevTrue, visualizer, snapshot, frame,
                   timeSteps, k, opCount, worker, dynVars, buildVars, anchors,
                   vizVars, lastResample>>

\* lines 63-73: the anchor update of agent i for anchor k
AnchorUpdate ==
    /\ pc = "update_anchor"
    /\ \E z \in StdNormal :
        LET sigma == combined_std(AgentSd(i), AnchorSd(k))
            r == ranging(AnchorAt(k), truePos[i], sigma, z)
        IN  /\ particles' = [particles EXCEPT
                    ![i] = update_weights(particles[i], r, AnchorAt(k), sigma)]
            /\ lastUpdate' = Update(i, "anchor", k, sigma, AnchorAt(k), sigma)
    /\ lastOp' = [lastOp EXCEPT ![i] = "update_weights"]
    /\ log' = Append(log, Event("update_weights", i, "anchor"))
    /\ pc' = "normalize_in_loop"
    /\ UNCHANGED <<truePos, est, prevEst, prevTrue, visualizer, snapshot, frame,
                   timeSteps, i, j, k, opCount, worker, dynVars, buildVars, anchors,
                   vizVars, lastResample>>

\* Mutation of the anchor loop: no normalize_weights inside it.
NormalizeInLoopSkipped ==
    /\ pc = "normalize_in_loop"
    /\ IF k + 1 <= NumAnchors THEN k' = k + 1 /\ pc' = "update_anchor"
       ELSE k' = 1 /\ pc' = "normalize"
    /\ UNCHANGED <<particles, lastOp, log, truePos, est, prevEst, prevTrue, visualizer,
                   snapshot, frame, timeSteps, i, j, opCount, lastUpdate, worker,
                   dynVars, buildVars, anchors, vizVars, lastResample>>

\* line 74: normalize_weights inside the anchor loop
NormalizeInLoop ==
    /\ pc = "normalize_in_loop"
    /\ particles' = [particles EXCEPT ![i] = normalize_weights(particles[i])]
    /\ lastOp' = [lastOp EXCEPT ![i] = "normalize_weights"]
    /\ log' = Append(log, Event("normalize_weights", i, "anchor"))
    /\ IF k + 1 <= NumAnchors THEN k' = k + 1 /\ pc' = "update_anchor"
       ELSE k' = 1 /\ pc' = "normalize"
    /\ UNCHANGED <<truePos, est, prevEst, prevTrue, visualizer, snapshot, frame,
                   timeSteps, i, j, opCount, lastUpdate, worker,
                   dynVars, buildVars, anchors, vizVars, lastResample>>

\* line 76: normalize_weights after the anchor loop
NormalizeAfterLoop ==
    /\ pc = "normalize"
    /\ particles' = [particles EXCEPT ![i] = normalize_weights(particles[i])]
    /\ lastOp' = [lastOp EXCEPT ![i] = "normalize_weights"]
    /\ log' = Append(log, Event("normalize_weights", i, "all"))
    /\ pc' = "update_est"
    /\ UNCHANGED <<truePos, est, prevEst, prevTrue, visualizer, snapshot, frame,
                   timeSteps, i, j, k, opCount, lastUpdate, worker,
                   dynVars, buildVars, anchors, vizVars, lastResample>>

\* Mutation of update_est_position: the previous estimate is always seeded
\* with the new one.
UpdateEstPositionNoShift ==
    /\ pc = "update_est"
    /\ LET new_est == posterior_mean(particles[i])
       IN  /\ prevEst' = [prevEst EXCEPT ![i] = new_est]
           /\ est' = [est EXCEPT ![i] = new_est]
    /\ log' = Append(log, Event("update_est_position", i, "all"))
    /\ pc' = "resample"
    /\ UNCHANGED <<particles, lastOp, truePos, prevTrue, visualizer, snapshot, frame,
                   timeSteps, i, j, k, opCount, lastUpdate, worker,
                   dynVars, buildVars, anchors, vizVars, lastResample>>

\* line 77: SwarmElement::update_est_position
UpdateEstPosition ==
    /\ pc = "update_est"
    /\ LET new_est == posterior_mean(particles[i])
       IN  /\ prevEst' = [prevEst EXCEPT
                ![i] = IF prevEst[i] = None THEN new_est ELSE est[i]]
           /\ est' = [est EXCEPT ![i] = new_est]
    /\ log' = Append(log, Event("update_est_position", i, "all"))
    /\ pc' = "resample"
    /\ UNCHANGED <<particles, lastOp, truePos, prevTrue, visualizer, snapshot, frame,
                   timeSteps, i, j, k, opCount, lastUpdate, worker,
                   dynVars, buildVars, anchors, vizVars, lastResample>>

\* line 78: resample; then the next swarm element of the loop of line 62, or
\* line 81
Resample ==
    /\ pc = "resample"
    /\ \E r \in RandomUnit :
        LET u0 == FDiv(r, FromInt(Len(particles[i])))
        IN  /\ particles' = [particles EXCEPT ![i] = resample(particles[i], u0)]
            /\ lastResample' = Draws(i, particles[i], u0)
    /\ lastOp' = [lastOp EXCEPT ![i] = "resample"]
    /\ log' = Append(log, Event("resample", i, "all"))
    /\ IF i + 1 <= NumAgents THEN i' = i + 1 /\ pc' = "update_anchor"
       ELSE i' = 1 /\ pc' = (IF visualizer THEN "capture" ELSE "move")
    /\ UNCHANGED <<truePos, est, prevEst, prevTrue, visualizer, snapshot, frame,
                   timeSteps, j, k, opCount, lastUpdate, worker,
                   dynVars, buildVars, anchors, vizVars>>

\* The worker thread of the visualizer ends (an expect of its loop fails on a
\* sink error): rx is dropped and the channel is closed.
WorkerStops ==
    /\ visualizer /\ worker
    /\ pc \notin {"idle", "done", "aborted"}
    /\ worker' = FALSE
    /\ UNCHANGED <<particles, lastOp, truePos, est, prevEst, prevTrue, visualizer,
                   snapshot, pc, frame, timeSteps, i, j, k, log, opCount, lastUpdate,
                   dynVars, buildVars, anchors, vizVars, lastResample>>

\* lines 81-83: capture_frame hands every agent's particle set to the visualizer
\* through RerunVisualization::log; send on the closed channel is an Err and
\* the expect of log panics: run is left at once
CaptureFrame ==
    /\ pc = "capture"
    /\ IF worker
       THEN /\ snapshot' = [frame |-> frame, particles |-> particles]
            /\ log' = Append(log, Event("capture_frame", 0, "all"))
            /\ pc' = "move"
       ELSE /\ pc' = "aborted"
            /\ UNCHANGED <<snapshot, log>>
    /\ UNCHANGED <<particles, lastOp, truePos, est, prevEst, prevTrue, visualizer,
                   frame, timeSteps, i, j, k, opCount, lastUpdate, worker,
                   dynVars, buildVars, anchors, vizVars, lastResample>>

\* move_position: the true position advances by the true velocity
moved_truth(a, pos) == FAdd(pos, AgentVel(a))

\* move_position: the particles advance by the measured velocity, the true
\* velocity plus transmission noise
moved_particles(a, ps, noise) == update_position(ps, FAdd(AgentVel(a), noise))

\* lines 85-87: move_position of agent i; after the last agent, the next frame
MovePosition ==
    /\ pc = "move"
    /\ \E noise \in VelocityNoise :
        particles' = [particles EXCEPT ![i] = moved_particles(i, particles[i], noise)]
    /\ lastOp' = [lastOp EXCEPT ![i] = "update_position"]
    /\ prevTrue' = [prevTrue EXCEPT ![i] = truePos[i]]
    /\ truePos' = [truePos EXCEPT ![i] = moved_truth(i, truePos[i])]
    /\ IF i + 1 <= NumAgents
       THEN /\ i' = i + 1 /\ pc' = "move"
            /\ log' = Append(log, Event("move_position", i, "all"))
            /\ UNCHANGED <<frame, j, k>>
       ELSE EnterFrame(frame + 1, timeSteps)
    /\ UNCHANGED <<est, prevEst, visualizer, snapshot, timeSteps, opCount, lastUpdate, worker,
                   dynVars, buildVars, anchors, vizVars, lastResample>>

Next ==
    \/ Run
    \/ PairwiseUpdate
    \/ AnchorUpdate
    \/ NormalizeInLoop
    \/ NormalizeAfterLoop
    \/ UpdateEstPosition
    \/ Resample
    \/ WorkerStops
    \/ CaptureFrame
    \/ MovePosition

Spec == Init /\ [][Next]_vars

(***************************************************************************)
(* The dynamics model on its own: step and predict_next_state, any order.  *)
(***************************************************************************)
InitDynamics ==
    /\ visualizer = FALSE
    /\ InitElements({[q \in 1..NumParticles |-> FromInt(1)]})
    /\ \E p \in ModelPositions, v \in ModelVelocities,
          mean_a \in AccelMeans, sigma_a \in AccelStdDevs :
            NewModel(p, v, mean_a, sigma_a)
    /\ builder = DefaultBuilder
    /\ simulation = Built("none", <<>>, <<>>, FALSE)
    /\ anchors = [x \in Anchors |-> AnchorAt(x)]

\* dynamics_model.step(dt, rng)
Step ==
    /\ opCount < MaxOps
    /\ \E dt \in DtInputs, z \in StdNormal :
        LET a == sample(dynamics_model.accel_noise, z)
        IN  /\ dynamics_model' = step(dynamics_model, dt, a)
            /\ call' = Call("step", dt, a, dynamics_model.pos, dynamics_model.vel,
                            dynamics_model, Zero)
    /\ opCount' = opCount + 1
    /\ UNCHANGED <<particles, lastOp, simVars, buildVars, anchors, vizVars, lastResample>>

\* dynamics_model.predict_next_state(dt, position, velocity, rng), on &self
PredictNextState ==
    /\ opCount < MaxOps
    /\ \E dt \in DtInputs, position \in PredictPositions,
          velocity \in PredictVelocities, z \in StdNormal :
        LET a == sample(dynamics_model.accel_noise, z)
        IN  call' = Call("predict_next_state", dt, a, position, velocity,
                         dynamics_model,
                         predict_next_state(dynamics_model, dt, position, velocity, a))
    /\ opCount' = opCount + 1
    /\ UNCHANGED <<particles, lastOp, simVars, dynamics_model, buildVars, anchors, vizVars,
                   lastResample>>

\* SwarmElement::get_ranging_velocity: the true velocity plus transmission noise
get_ranging_velocity(m, noise) == FAdd(m.vel, noise)

\* ParticleFilter::predict_with_measured_velocity: every particle's position is
\* replaced by the model's prediction from it and the measured velocity, with
\* its own acceleration sample zs[q]
predict_with_measured_velocity(ps, dt, velocity, m, zs) ==
    [q \in DOMAIN ps |->
        [ps[q] EXCEPT !.position =
            predict_next_state(m, dt, ps[q].position, velocity,
                               sample(m.accel_noise, zs[q]))]]

\* Mutation of SwarmElement::step: the truth is advanced first, the velocity
\* is measured and the previous position stored after it.
SwarmElementStepAdvanceFirst ==
    /\ opCount < MaxTimeSteps
    /\ \E dt \in DtInputs, noise \in VelocityNoise, z \in StdNormal,
          zs \in [DOMAIN particles[1] -> StdNormal] :
        LET a == sample(dynamics_model.accel_noise, z)
            advanced == step(dynamics_model, dt, a)
            velocity == get_ranging_velocity(advanced, noise)
        IN  /\ particles' = [particles EXCEPT ![1] =
                    predict_with_measured_velocity(particles[1], dt, velocity,
                                                   advanced, zs)]
            /\ prevTrue' = [prevTrue EXCEPT ![1] = Some(advanced.pos)]
            /\ dynamics_model' = advanced
            /\ call' = Call("swarm_element_step", dt, a, dynamics_model.pos, velocity,
                            dynamics_model, Zero)
    /\ lastOp' = [lastOp EXCEPT ![1] = "predict"]
    /\ opCount' = opCount + 1
    /\ UNCHANGED <<truePos, est, prevEst, visualizer, snapshot, pc, frame, timeSteps,
                   i, j, k, log, lastUpdate, worker, buildVars, anchors, vizVars,
                   lastResample>>

\* SwarmElement::step(dt) of element 1, once per timestep: the particles are
\* predicted with the measured velocity, the true position is stored in
\* prev_positions.true_position, then the truth is advanced
SwarmElementStep ==
    /\ opCount < MaxTimeSteps
    /\ \E dt \in DtInputs, noise \in VelocityNoise, z \in StdNormal,
          zs \in [DOMAIN particles[1] -> StdNormal] :
        LET velocity == get_ranging_velocity(dynamics_model, noise)
            a == sample(dynamics_model.accel_noise, z)
        IN  /\ particles' = [particles EXCEPT ![1] =
                    predict_with_measured_velocity(particles[1], dt, velocity,
                                                   dynamics_model, zs)]
            /\ prevTrue' = [prevTrue EXCEPT ![1] = Some(dynamics_model.pos)]
            /\ dynamics_model' = step(dynamics_model, dt, a)
            /\ call' = Call("swarm_element_step", dt, a, dynamics_model.pos, velocity,
                            dynamics_model, Zero)
    /\ lastOp' = [lastOp EXCEPT ![1] = "predict"]
    /\ opCount' = opCount + 1
    /\ UNCHANGED <<truePos, est, prevEst, visualizer, snapshot, pc, frame, timeSteps,
                   i, j, k, log, lastUpdate, worker, buildVars, anchors, vizVars,
                   lastResample>>

\* the timesteps of one swarm element
SpecSwarmElement == InitDynamics /\ [][SwarmElementStep]_vars

NextDynamics ==
    \/ Step
    \/ PredictNextState

SpecDynamics == InitDynamics /\ [][NextDynamics]_vars

(***************************************************************************)
(* SimulationBuilder: the setters in any order, then build.                *)
(***************************************************************************)
InitBuilder ==
    /\ visualizer = FALSE
    /\ InitElements({[q \in 1..NumParticles |-> FromInt(1)]})
    /\ NewModel(AgentPos(1), AgentVel(1), Zero, Zero)
    /\ builder = DefaultBuilder
    /\ simulation = Built("none", <<>>, <<>>, FALSE)
    /\ anchors = [x \in Anchors |-> AnchorAt(x)]

\* SimulationBuilder::swarm_elements
SetSwarmElements ==
    /\ simulation.status = "none"
    /\ \E es \in ElementLists : builder' = [builder EXCEPT !.swarm_elements = Some(es)]
    /\ UNCHANGED <<particles, lastOp, opCount, simVars, dynVars, simulation, anchors,
                   vizVars, lastResample>>

\* SimulationBuilder::anchors
SetAnchors ==
    /\ simulation.status = "none"
    /\ \E as \in AnchorLists : builder' = [builder EXCEPT !.anchors = Some(as)]
    /\ UNCHANGED <<particles, lastOp, opCount, simVars, dynVars, simulation, anchors,
                   vizVars, lastResample>>

\* SimulationBuilder::visualizer
SetVisualizer ==
    /\ simulation.status = "none"
    /\ builder' = [builder EXCEPT !.visualizer = TRUE]
    /\ UNCHANGED <<particles, lastOp, opCount, simVars, dynVars, simulation, anchors,
                   vizVars, lastResample>>

\* SimulationBuilder::build, which consumes the builder
Build ==
    /\ simulation.status = "none"
    /\ simulation' = build(builder)
    /\ UNCHANGED <<particles, lastOp, opCount, simVars, dynVars, builder, anchors,
                   vizVars, lastResample>>

NextBuilder ==
    \/ SetSwarmElements
    \/ SetAnchors
    \/ SetVisualizer
    \/ Build

SpecBuilder == InitBuilder /\ [][NextBuilder]_vars

(***************************************************************************)
(* The likelihood law: a new filter, one noise-free observation per anchor *)
(* of the layout, then normalize_weights.  The truth is dynamics_model.pos.*)
(***************************************************************************)
InitLikelihood ==
    /\ visualizer = FALSE
    /\ InitElements({[q \in 1..NumParticles |-> FromInt(1)]})
    /\ \E p \in ModelPositions : NewModel(p, Zero, Zero, Zero)
    /\ builder = DefaultBuilder
    /\ simulation = Built("none", <<>>, <<>>, FALSE)
    /\ anchors \in Lists(LayoutPositions)

\* ParticleFilter::new(&bounding_box, num_particles) for swarm element 1
CreateFilter ==
    /\ opCount = 0
    /\ \E smp \in [1..NumParticles -> SamplePositions] :
        particles' = [particles EXCEPT ![1] = NewFilter(smp)]
    /\ lastOp' = [lastOp EXCEPT ![1] = "new"]
    /\ opCount' = 1
    /\ k' = 1
    /\ UNCHANGED <<truePos, est, prevEst, prevTrue, visualizer, snapshot, pc, frame,
                   timeSteps, i, j, log, lastUpdate, worker, dynVars, buildVars,
                   anchors, vizVars, lastResample>>

\* update_weights with the true range to anchor k, the ranging noise at zero
ObserveAnchor ==
    /\ opCount > 0
    /\ lastOp[1] \in {"new", "update_weights"}
    /\ k <= Len(anchors)
    /\ LET r == ranging(anchors[k], dynamics_model.pos, One, 0)
       IN  particles' = [particles EXCEPT
               ![1] = update_weights(particles[1], r, anchors[k], One)]
    /\ lastOp' = [lastOp EXCEPT ![1] = "update_weights"]
    /\ opCount' = opCount + 1
    /\ k' = k + 1
    /\ UNCHANGED <<truePos, est, prevEst, prevTrue, visualizer, snapshot, pc, frame,
                   timeSteps, i, j, log, lastUpdate, worker, dynVars, buildVars,
                   anchors, vizVars, lastResample>>

\* normalize_weights after the last anchor
NormalizeObserved ==
    /\ opCount > 0
    /\ lastOp[1] \in {"new", "update_weights"}
    /\ k > Len(anchors)
    /\ particles' = [particles EXCEPT ![1] = normalize_weights(particles[1])]
    /\ lastOp' = [lastOp EXCEPT ![1] = "normalize_weights"]
    /\ opCount' = opCount + 1
    /\ UNCHANGED <<simVars, dynVars, buildVars, anchors, vizVars, lastResample>>

NextLikelihood ==
    \/ CreateFilter
    \/ ObserveAnchor
    \/ NormalizeObserved

SpecLikelihood == InitLikelihood /\ [][NextLikelihood]_vars

(***************************************************************************)
(* Properties.                                                             *)
(***************************************************************************)
IsUniform(ps) == \A q \in DOMAIN ps : ps[q].weight = FDiv(One, FromInt(Len(ps)))
IsDegenerateAt(ps, q) ==
    /\ ps[q].weight = One
    /\ \A x \in DOMAIN ps : x # q => ps[x].weight = Zero

\* C1: after any sequence of filter operations the filter still holds exactly
\* the N particles it was created with.
C1_ParticleCountConstant ==
    \A a \in Agents : Len(particles[a]) = NumParticles

\* C2: the weights sum to 1 immediately after new, immediately after
\* normalize_weights on weights with a positive sum, and immediately after
\* resample.
C2_WeightsSumToOne ==
    [][/\ lastOp[1] = "new" => SumWeights(particles[1]) = One
       /\ (OpNormalizeWeights(1) /\ FGt(SumWeights(particles[1]), Zero))
            => SumWeights(particles'[1]) = One
       /\ OpResample(1) => SumWeights(particles'[1]) = One]_vars

\* C3: after resample every particle of the new generation carries the same,
\* uniform weight, whatever weight it had before.
C3_UniformAfterResample ==
    \A a \in Agents : lastOp[a] = "resample" => IsUniform(particles[a])

\* C4: the resampling step of a timestep leaves the particle set unchanged
\* whenever ESS/N >= tau.
C4_ResampleGatedByEss ==
    [][(Resample /\ FGe(FDiv(ess(particles[i]), FromInt(NumParticles)), Tau))
            => particles'[i] = particles[i]]_vars

\* C5: resampling a degenerate weight vector (one particle of weight 1, the
\* others 0) yields, for every start offset, a population in which every
\* particle has the position of the weight-1 particle.
C5_DegenerateConcentrates ==
    [][\A q \in DOMAIN particles[1] :
          (OpResample(1) /\ IsDegenerateAt(particles[1], q))
            => \A x \in DOMAIN particles'[1] :
                  particles'[1][x].position = particles[1][q].position]_vars

\* C6: resampling uniform weights selects, for every start offset, every
\* particle exactly once: the population is the one it was.
C6_UniformUnbiased ==
    [][(OpResample(1) /\ IsUniform(particles[1]))
            => particles'[1] = particles[1]]_vars

\* C7: after every resample of a run the effective sample size of the
\* resampled, renormalized weights is above tau * N.
C7_EssRecovers ==
    \A a \in Agents :
        (pc # "idle" /\ lastOp[a] = "resample")
            => FGt(ess(particles[a]), FMul(Tau, FromInt(NumParticles)))

\* C8: normalize_weights on weights that sum to zero does not leave the
\* weights as invalid values and go on as if nothing had happened.
C8_DegenerateSurfaced ==
    [][((NormalizeInLoop \/ NormalizeAfterLoop) /\ SumWeights(particles[i]) = Zero)
            => \A q \in DOMAIN particles'[i] : ~IsNaN(particles'[i][q].weight)]_vars

EventsOf(op, a, about) == {x \in DOMAIN log : log[x] = Event(op, a, about)}
IsUpdate(x, a) == log[x].op = "update_weights" /\ log[x].agent = a
IsNormalize(x, a) == log[x].op = "normalize_weights" /\ log[x].agent = a

C11_SnapshotBeforeResample ==
    \A x \in DOMAIN log :
        log[x].op = "capture_frame" =>
            \A a \in Agents :
                /\ \E y \in 1..(x - 1) : log[y] = Event("normalize_weights", a, "all")
                /\ \E y \in 1..(x - 1) : log[y] = Event("update_est_position", a, "all")
                /\ \A y \in 1..(x - 1) : log[y] # Event("resample", a, "all")

\* C12: in the pairwise phase every update of agent i's filter for peer j
\* takes j's estimated position as the reference, and no estimated position
\* changes from the first to the last pairwise update of the timestep.
C12_PairwiseUsesEstimates ==
    [][/\ pc = "pair" => est' = est
       /\ PairwiseUpdate =>
            /\ lastUpdate'.agent = i /\ lastUpdate'.about = "peer" /\ lastUpdate'.from = j
            /\ lastUpdate'.reference = est[j]
            /\ lastUpdate'.reference = est'[j]]_vars

\* C12 witness: a pairwise update of the second timestep has read an estimate
\* that is neither the initial one nor the peer's true position.
C12_Witness ==
    /\ lastUpdate # None
    /\ frame = 1
    /\ lastUpdate.about = "peer"
    /\ lastUpdate.reference = est[lastUpdate.from]
    /\ lastUpdate.reference # Zero
    /\ lastUpdate.reference # truePos[lastUpdate.from]

\* C13: for every peer and anchor observation the deviation the noisy range is
\* synthesized with is the sigma passed to update_weights, and it is the square
\* root of the sum of the two parties' ranging-noise variances.
C13_CombinedSigma ==
    lastUpdate # None =>
        LET sd_rx == AgentSd(lastUpdate.agent)
            sd_tx == IF lastUpdate.about = "peer" THEN AgentSd(lastUpdate.from)
                     ELSE AnchorSd(lastUpdate.from)
        IN  /\ lastUpdate.noise_std = lastUpdate.sigma
            /\ lastUpdate.sigma = FSqrt(FAdd(FMul(sd_rx, sd_rx), FMul(sd_tx, sd_tx)))

\* C13 witness: an anchor observation whose sigma combines two deviations and
\* differs from the agent's own.
C13_Witness ==
    /\ lastUpdate # None
    /\ lastUpdate.sigma # AgentSd(lastUpdate.agent)
    /\ lastUpdate.sigma = One
    /\ lastUpdate.about = "anchor"

\* position + velocity * dt + a * dt^2 / 2
Kinematic(position, velocity, dt, a) ==
    FAdd(FAdd(position, FMul(velocity, dt)),
         FDiv(FMul(a, FMul(dt, dt)), FromInt(2)))

\* C14: step with dt = 0 leaves position and velocity unchanged, for every
\* state, every noise mean and deviation and every acceleration sample.
C14_ZeroDtIsIdentity ==
    (call.op = "step" /\ call.dt = Zero) =>
        /\ dynamics_model.pos = call.before.pos
        /\ dynamics_model.vel = call.before.vel

\* C14 witness: a step with dt = 0 of a moving model that drew a non-zero
\* acceleration.
C14_Witness ==
    /\ call.op = "step" /\ call.dt = Zero
    /\ call.a # Zero
    /\ call.before.vel # Zero
    /\ call.before.accel_noise.std_dev # Zero

\* C15: step(dt) with drawn acceleration a sets the position to
\* old position + old velocity * dt + 0.5 * a * dt^2 and the velocity to
\* old velocity + a * dt, with the same a in both.
C15_StepKinematics ==
    call.op = "step" =>
        /\ dynamics_model.pos = Kinematic(call.before.pos, call.before.vel, call.dt, call.a)
        /\ dynamics_model.vel = FAdd(call.before.vel, FMul(call.a, call.dt))
        /\ dynamics_model.accel_noise = call.before.accel_noise

\* C15 witness: a step with dt # 0 and a # 0, so that the velocity changed.
C15_Witness ==
    /\ call.op = "step" /\ call.dt # Zero /\ call.a # Zero
    /\ dynamics_model.vel # call.before.vel
    /\ dynamics_model.pos # FAdd(call.before.pos, FMul(call.before.vel, call.dt))

\* C16: predict_next_state(dt, position, velocity) returns
\* position + velocity * dt + 0.5 * a * dt^2 of its arguments, not of the
\* model's own state; for dt = 0 it returns position; the model's own position
\* and velocity are the same after the call as before.
C16_PredictFromArguments ==
    call.op = "predict_next_state" =>
        /\ call.result = Kinematic(call.position, call.velocity, call.dt, call.a)
        /\ call.dt = Zero => call.result = call.position
        /\ dynamics_model = call.before

\* C16 witness: a prediction with dt # 0 from a position and a velocity that
\* are not the model's own, after the model has moved.
C16_Witness ==
    /\ call.op = "predict_next_state" /\ call.dt # Zero /\ call.a # Zero
    /\ call.position # dynamics_model.pos
    /\ call.velocity # dynamics_model.vel
    /\ call.result # Kinematic(dynamics_model.pos, dynamics_model.vel, call.dt, call.a)
    /\ opCount > 1

\* C17: the first update_est_position sets est_position and
\* prev_positions.est_position to the new posterior mean; every later call sets
\* prev_positions.est_position to the est_position held right before the call
\* and est_position to the new posterior mean.
C17_PrevEstShifts ==
    [][UpdateEstPosition =>
        /\ est'[i] = posterior_mean(particles[i])
        /\ prevEst[i] = None => prevEst'[i] = est'[i]
        /\ prevEst[i] # None => prevEst'[i] = est[i]
        /\ \A a \in Agents \ {i} : est'[a] = est[a] /\ prevEst'[a] = prevEst[a]]_vars

\* C17 witness: after a second call the previous estimate is not the current
\* one.
C17_Witness ==
    /\ pc = "resample" /\ frame = 1
    /\ prevEst[i] # None
    /\ prevEst[i] # est[i]
    /\ ~IsNaN(prevEst[i]) /\ ~IsNaN(est[i])

\* C18: a newly constructed swarm element has est_position 0, no previous true
\* or estimated position, reports the true position and the velocity it was
\* given, and its filter holds exactly N particles of weight 1/N each.
C18_NewSwarmElement ==
    (pc = "idle" /\ opCount = 0) =>
        /\ \A a \in Agents :
            /\ est[a] = Zero
            /\ prevTrue[a] = None /\ prevEst[a] = None
            /\ truePos[a] = AgentPos(a)
            /\ Len(particles[a]) = NumParticles
            /\ \A q \in DOMAIN particles[a] :
                  particles[a][q].weight = Rat(1, NumParticles)
        /\ call.op = "new"
        /\ dynamics_model.pos = call.position
        /\ dynamics_model.vel = call.velocity

\* C18 witness: swarm elements right after construction, their particles at
\* different samples of the enclosure, the dynamics model with a position and
\* a velocity that differ.
C18_Witness ==
    /\ pc = "idle" /\ opCount = 0
    /\ \A a \in Agents : lastOp[a] = "new"
    /\ particles[1][1].position # particles[1][2].position
    /\ call.position # call.velocity

Missing(list) == list = None \/ list = Some(<<>>)

\* C19: build fails at build time when the agent list or the anchor list is
\* missing or empty; with both lists non-empty it returns a Simulation holding
\* exactly those agents and anchors, and no visualizer if none was set.
C19_BuildFailsFast ==
    simulation.status # "none" =>
        IF Missing(builder.swarm_elements) \/ Missing(builder.anchors)
        THEN simulation.status = "panicked"
        ELSE /\ simulation.status = "built"
             /\ simulation.swarm_elements = builder.swarm_elements[1]
             /\ simulation.anchors = builder.anchors[1]
             /\ ~builder.visualizer => ~simulation.visualizer

\* C20: when the visualizer's worker has stopped and its channel is closed
\* during a run, run does not abort.
C20_RunSurvivesSinkFailure ==
    (visualizer /\ ~worker) => pc # "aborted"

\* distance of particle q of agent 1 to the truth, and its range residual at
\* anchor x: | true range - predicted range |
DistanceToTruth(q) == FAbs(FSub(particles[1][q].position, dynamics_model.pos))
Residual(q, x) ==
    FAbs(FSub(FAbs(FSub(anchors[x], dynamics_model.pos)),
              FAbs(FSub(particles[1][q].position, anchors[x]))))

\* C21 as claimed: from uniform weights, after one noise-free update_weights
\* per anchor and normalize_weights, of every two particles the one nearer to
\* the true position has a weight greater than or equal to the other's, for
\* every anchor layout and true position.
C21_NearerWeighsMore ==
    lastOp[1] = "normalize_weights" =>
        \A p, q \in DOMAIN particles[1] :
            FGt(DistanceToTruth(q), DistanceToTruth(p))
                => FGe(particles[1][p].weight, particles[1][q].weight)

\* C21 as amended: the order of the weights follows the range residuals, not
\* the distance to the truth: a particle whose residual is smaller than or
\* equal to another's at every anchor never has the smaller weight of the two.
C21_SmallerResidualWeighsMore ==
    lastOp[1] = "normalize_weights" =>
        \A p, q \in DOMAIN particles[1] :
            (\A x \in DOMAIN anchors : FGe(Residual(q, x), Residual(p, x)))
                => ~FGt(particles[1][q].weight, particles[1][p].weight)

\* C21 witness: two anchors observed and normalized, a particle on the truth
\* with a greater weight than a particle that is off at both anchors.
C21_Witness ==
    /\ lastOp[1] = "normalize_weights" /\ Len(anchors) >= 2
    /\ \E p, q \in DOMAIN particles[1] :
        /\ \A x \in DOMAIN anchors : FGt(Residual(q, x), Residual(p, x))
        /\ FGt(particles[1][p].weight, particles[1][q].weight)
        /\ FGt(particles[1][q].weight, Zero)

\* C22: in every reachable state of a filter, after any sequence of its
\* operations, every particle's weight is a valid number that is >= 0.
C22_WeightsValid ==
    \A q \in DOMAIN particles[1] :
        /\ IsFinite(particles[1][q].weight)
        /\ FGe(particles[1][q].weight, Zero)

\* C23: a pairwise update for (i, j) and an anchor update for agent i modify
\* only the particle weights of agent i's filter: every other filter, agent
\* i's particle positions and count, every estimate and true state and the
\* anchors are unchanged.
C23_UpdateTouchesOwnWeights ==
    [][(PairwiseUpdate \/ AnchorUpdate) =>
        /\ \A a \in Agents \ {i} : particles'[a] = particles[a]
        /\ Len(particles'[i]) = Len(particles[i])
        /\ \A q \in DOMAIN particles[i] :
              particles'[i][q].position = particles[i][q].position
        /\ est' = est /\ prevEst' = prevEst
        /\ truePos' = truePos /\ prevTrue' = prevTrue
        /\ anchors' = anchors]_vars

\* C23 witness: a pairwise update has changed the weights of its agent while
\* the peer's filter is as it was created.
C23_Witness ==
    /\ lastUpdate # None /\ lastUpdate.about = "peer"
    /\ lastOp[lastUpdate.agent] = "update_weights"
    /\ lastOp[lastUpdate.from] = "new"
    /\ ~IsUniform(particles[lastUpdate.agent])
    /\ IsUniform(particles[lastUpdate.from])

\* the first particle (1-based) whose cumulative weight strictly exceeds pos,
\* the last particle if there is none
FirstExceeding(cum, pos) ==
    IF \E x \in DOMAIN cum : FGt(cum[x], pos)
    THEN CHOOSE x \in DOMAIN cum :
            FGt(cum[x], pos) /\ \A y \in 1..(x - 1) : ~FGt(cum[y], pos)
    ELSE Len(cum)

\* C24: for each draw point of resample the selected particle is the first
\* whose cumulative weight strictly exceeds the draw point; a draw point equal
\* to a cumulative weight selects the next particle.
C24_SelectsFirstExceeding ==
    lastResample # None =>
        LET ps == lastResample.before IN
        \A x \in DOMAIN lastResample.cursor :
            lastResample.cursor[x] + 1 =
                FirstExceeding(cum_weights(ps), DrawPoint(lastResample.u0, x - 1, Len(ps)))

\* the elements of a set of numbers in ascending order
Ascending(S) ==
    CHOOSE f \in [1..Cardinality(S) -> S] :
        \A x, y \in 1..Cardinality(S) : x < y => f[x] < f[y]

\* C25: resample keeps one copy of each selected particle: the new population
\* is the distinct particles hit by a draw point, in their original order; its
\* size is the number of distinct selected indices and lies between 1 and N.
C25_Deduplicates ==
    (lastResample # None /\ lastOp[1] = "resample" /\ lastResample.agent = 1) =>
        LET ps == lastResample.before
            hit == {lastResample.cursor[x] + 1 : x \in DOMAIN lastResample.cursor}
            order == Ascending(hit)
        IN  /\ Len(particles[1]) = Cardinality(hit)
            /\ Len(particles[1]) >= 1 /\ Len(particles[1]) <= Len(ps)
            /\ \A x \in DOMAIN particles[1] :
                  particles[1][x].position = ps[order[x]].position

\* C25 witness: a resample of N particles at different positions that kept
\* fewer than N of them.
C25_Witness ==
    /\ lastResample # None /\ lastOp[1] = "resample" /\ lastResample.agent = 1
    /\ Len(lastResample.before) = NumParticles
    /\ Len(particles[1]) < NumParticles
    /\ lastResample.before[1].position # lastResample.before[2].position

\* C26: during resample on N >= 1 particles, for any weights, the cursor is
\* non-decreasing across the draw points and stays within 0..N-1; the last
\* cumulative weight is 1.0, every draw point is below 1, and no draw point
\* exceeds the cumulative weight of the particle it selects.
C26_CursorInBounds ==
    lastResample # None =>
        LET ps == lastResample.before
            cursor == lastResample.cursor
            cum == cum_weights(ps)
        IN  /\ Len(ps) >= 1
            /\ cum[Len(ps)] = One
            /\ \A x \in DOMAIN cursor :
                /\ cursor[x] \in 0..(Len(ps) - 1)
                /\ x > 1 => cursor[x - 1] <= cursor[x]
                /\ ~FGt(DrawPoint(lastResample.u0, x - 1, Len(ps)), cum[cursor[x] + 1])
                /\ FGt(One, DrawPoint(lastResample.u0, x - 1, Len(ps)))

\* C26 witness: a resample of weights that sum to less than 1 in which the
\* cursor reached the last particle.
C26_Witness ==
    /\ lastResample # None
    /\ FGt(One, SumWeights(lastResample.before))
    /\ FGt(SumWeights(lastResample.before), Zero)
    /\ Len(lastResample.before) = NumParticles
    /\ lastResample.cursor[NumParticles] = NumParticles - 1
    /\ lastResample.cursor[1] = 0

\* C27: whenever a pairwise update reads a peer's est_position, that estimate
\* has been computed by update_est_position at least once; it is never the
\* construction default, also in the first timestep.
C27_EstimateComputedBeforeUse ==
    (lastUpdate # None /\ lastUpdate.about = "peer") =>
        prevEst[lastUpdate.from] # None

\* C28: SwarmElement::step(dt) predicts the particles with a velocity
\* measurement taken from the true velocity before the truth is advanced, stores
\* the pre-step true position in prev_positions.true_position, then advances the
\* truth by the dynamics model; est_position and prev_positions.est_position
\* are unchanged.
C28_StepOrder ==
    [][(call'.op = "swarm_element_step" /\ opCount' = opCount + 1) =>
        LET dt == call'.dt IN
        /\ \E noise \in VelocityNoise :
              call'.velocity = FAdd(dynamics_model.vel, noise)
        /\ Len(particles'[1]) = Len(particles[1])
        /\ \A q \in DOMAIN particles[1] :
              /\ particles'[1][q].weight = particles[1][q].weight
              /\ \E z \in StdNormal :
                    particles'[1][q].position =
                        Kinematic(particles[1][q].position, call'.velocity, dt,
                                  sample(dynamics_model.accel_noise, z))
        /\ prevTrue'[1] = Some(dynamics_model.pos)
        /\ dynamics_model'.pos =
              Kinematic(dynamics_model.pos, dynamics_model.vel, dt, call'.a)
        /\ dynamics_model'.vel = FAdd(dynamics_model.vel, FMul(call'.a, dt))
        /\ est' = est /\ prevEst' = prevEst]_vars

\* C28 witness: a step with dt > 0 has changed the true velocity and moved the
\* truth and the particles; the stored previous position is the pre-step one.
C28_Witness ==
    /\ call.op = "swarm_element_step"
    /\ call.dt # Zero
    /\ dynamics_model.vel # call.before.vel
    /\ dynamics_model.pos # call.before.pos
    /\ prevTrue[1] = Some(call.before.pos)
    /\ \E q \in DOMAIN particles[1] : particles[1][q].position # FromInt(1)

(***************************************************************************)
(* RerunVisualization: the command channel, the worker thread and Drop.    *)
(***************************************************************************)
\* Command::SetFrame and Command::LogTrajectory
SetFrame(f) == [kind |-> "SetFrame", path |-> "", start |-> FromInt(f), end |-> FromInt(f)]
LogTrajectory(path, start_point, end_point) ==
    [kind |-> "LogTrajectory", path |-> path, start |-> start_point, end |-> end_point]

Commands ==
    {SetFrame(0)} \cup
    {LogTrajectory(path, s, e) : path \in Paths, s \in StartPoints, e \in EndPoints}

\* `as f32`: round to the nearest representable value, ties to even; the
\* representable values of the model are the multiples of 1/2
as_f32(x) ==
    IF ~IsFinite(x) THEN x
    ELSE LET halves == (2 * x[1]) \div x[2]
             rest == (2 * x[1]) % x[2]
             up == 2 * rest > x[2] \/ (2 * rest = x[2] /\ halves % 2 = 1)
             h == IF up THEN halves + 1 ELSE halves
         IN  IF h % 2 = 0 THEN <<h \div 2, 1>> ELSE <<h, 2>>

\* != on [f32; 3]: a NaN component is unequal to everything
f32_ne(a, b) == IsNaN(a) \/ IsNaN(b) \/ a # b

\* Mutation of the LogTrajectory branch: the newest points are dropped.
log_trajectory_keep_oldest(buf, start_point, end_point) ==
    LET s == as_f32(start_point)
        e == as_f32(end_point)
        pushed == IF Len(buf) = 0
                  THEN (IF f32_ne(s, e) THEN <<s, e>> ELSE <<s>>)
                  ELSE (IF f32_ne(buf[Len(buf)], e) THEN Append(buf, e) ELSE buf)
    IN  IF Len(pushed) > MAX_TRAJECTORY_HISTORY
        THEN SubSeq(pushed, 1, MAX_TRAJECTORY_HISTORY)
        ELSE pushed

\* the LogTrajectory branch of the worker, lines 84-122, on the buffer of its path
log_trajectory(buf, start_point, end_point) ==
    LET s == as_f32(start_point)
        e == as_f32(end_point)
        pushed == IF Len(buf) = 0
                  THEN (IF f32_ne(s, e) THEN <<s, e>> ELSE <<s>>)
                  ELSE (IF f32_ne(buf[Len(buf)], e) THEN Append(buf, e) ELSE buf)
    IN  IF Len(pushed) > MAX_TRAJECTORY_HISTORY
        THEN SubSeq(pushed, Len(pushed) - MAX_TRAJECTORY_HISTORY + 1, Len(pushed))
        ELSE pushed

\* RerunVisualization::new has returned: the worker runs, the channel is empty
InitVisualization ==
    /\ visualizer = TRUE
    /\ InitElements({[q \in 1..NumParticles |-> FromInt(1)]})
    /\ NewModel(FromInt(1), Zero, Zero, Zero)
    /\ builder = DefaultBuilder
    /\ simulation = Built("none", <<>>, <<>>, FALSE)
    /\ anchors = [x \in Anchors |-> AnchorAt(x)]

\* RerunVisualization::log while the worker runs: send blocks while the
\* channel is full
Log ==
    /\ dropPhase = "live" /\ tx /\ worker
    /\ Len(sent) < MaxCommands
    /\ Len(channel) < ChannelCapacity
    /\ \E command \in Commands :
        /\ channel' = Append(channel, command)
        /\ sent' = Append(sent, command)
    /\ UNCHANGED <<particles, lastOp, runVars, worker, opCount, dynVars, buildVars,
                   anchors, lastResample, tx, traj_points, processed, dropPhase>>

\* one iteration of `for cmd in rx`: the oldest command is received and handled
WorkerProcess ==
    /\ worker
    /\ Len(channel) > 0
    /\ LET cmd == Head(channel)
       IN  /\ traj_points' =
                 IF cmd.kind = "LogTrajectory"
                 THEN [traj_points EXCEPT ![cmd.path] =
                          log_trajectory(traj_points[cmd.path], cmd.start, cmd.end)]
                 ELSE traj_points
           /\ processed' = Append(processed, cmd)
    /\ channel' = Tail(channel)
    /\ UNCHANGED <<particles, lastOp, runVars, worker, opCount, dynVars, buildVars,
                   anchors, lastResample, tx, sent, dropPhase>>

\* lines 123-128: rec.log fails on a sink error and its expect panics, after the
\* buffer of the command's path has been updated; the thread ends, rx is
\* dropped and with it every command still queued
WorkerPanics ==
    /\ worker
    /\ Len(channel) > 0
    /\ Head(channel).kind = "LogTrajectory"
    /\ LET cmd == Head(channel)
       IN  /\ traj_points' = [traj_points EXCEPT ![cmd.path] =
                    log_trajectory(traj_points[cmd.path], cmd.start, cmd.end)]
           /\ processed' = Append(processed, cmd)
    /\ channel' = <<>>
    /\ worker' = FALSE
    /\ UNCHANGED <<particles, lastOp, runVars, opCount, dynVars, buildVars,
                   anchors, lastResample, tx, sent, dropPhase>>

\* `for cmd in rx` ends: the channel is empty and its sender is dropped
WorkerExit ==
    /\ worker
    /\ ~tx /\ Len(channel) = 0
    /\ worker' = FALSE
    /\ UNCHANGED <<particles, lastOp, runVars, opCount, dynVars, buildVars,
                   anchors, lastResample, vizVars>>

\* Drop, line 155: self.tx.take() closes the channel
DropClose ==
    /\ dropPhase = "live"
    /\ tx' = FALSE
    /\ dropPhase' = "joining"
    /\ UNCHANGED <<particles, lastOp, runVars, worker, opCount, dynVars, buildVars,
                   anchors, lastResample, channel, traj_points, sent, processed>>

\* Drop, lines 156-158: handle.join() returns once the worker has terminated
DropJoin ==
    /\ dropPhase = "joining"
    /\ ~worker
    /\ dropPhase' = "returned"
    /\ UNCHANGED <<particles, lastOp, runVars, worker, opCount, dynVars, buildVars,
                   anchors, lastResample, channel, tx, traj_points, sent, processed>>

NextVisualization ==
    \/ Log
    \/ WorkerProcess
    \/ WorkerPanics
    \/ WorkerExit
    \/ DropClose
    \/ DropJoin

SpecVisualization == InitVisualization /\ [][NextVisualization]_vars

\* the worker is a thread of its own and the dropping thread runs on: each
\* takes its next step when it can
SpecVisualizationFair ==
    /\ SpecVisualization
    /\ WF_vars(WorkerProcess)
    /\ WF_vars(WorkerExit)
    /\ WF_vars(DropJoin)

\* every point a trajectory has ever been given, without the history bound
RECURSIVE History(_, _)
History(cmds, path) ==
    IF Len(cmds) = 0 THEN <<>>
    ELSE LET before == History(SubSeq(cmds, 1, Len(cmds) - 1), path)
             cmd == cmds[Len(cmds)]
             s == as_f32(cmd.start)
             e == as_f32(cmd.end)
         IN  IF cmd.kind # "LogTrajectory" \/ cmd.path # path THEN before
             ELSE IF Len(before) = 0
                  THEN (IF f32_ne(s, e) THEN <<s, e>> ELSE <<s>>)
             ELSE IF f32_ne(before[Len(before)], e) THEN Append(before, e)
             ELSE before

\* the last n elements of a sequence
Newest(sq, n) == IF Len(sq) > n THEN SubSeq(sq, Len(sq) - n + 1, Len(sq)) ELSE sq

\* C29: the worker's trajectory buffer of a path never holds more than
\* MAX_TRAJECTORY_HISTORY points and holds the newest ones (the oldest are
\* dropped first); no point equal to the one stored before it is stored twice
\* in a row; the commands are processed in the order they were sent.
C29_TrajectoryBuffer ==
    /\ Len(processed) <= Len(sent)
    /\ processed = SubSeq(sent, 1, Len(processed))
    /\ worker => sent = processed \o channel
    /\ \A path \in Paths :
        LET buf == traj_points[path] IN
        /\ Len(buf) <= MAX_TRAJECTORY_HISTORY
        /\ buf = Newest(History(processed, path), MAX_TRAJECTORY_HISTORY)
        /\ \A x \in 1..(Len(buf) - 1) : f32_ne(buf[x], buf[x + 1])

\* C29 witness: a trajectory has been given more points than it keeps, and a
\* command whose end point equals the last stored point has been processed.
C29_Witness ==
    \E path \in Paths :
        /\ Len(History(processed, path)) > MAX_TRAJECTORY_HISTORY
        /\ Len(traj_points[path]) = MAX_TRAJECTORY_HISTORY
        /\ \E x \in 2..Len(processed) :
              /\ processed[x].kind = "LogTrajectory" /\ processed[x].path = path
              /\ History(SubSeq(processed, 1, x), path)
                     = History(SubSeq(processed, 1, x - 1), path)

\* C30: Drop closes the sender and joins the worker; the worker processes
\* every command sent before the drop and then terminates, so the drop
\* eventually returns and no command is lost.
C30_DropDrainsAndReturns ==
    /\ [](dropPhase = "returned" => (processed = sent /\ channel = <<>> /\ ~worker))
    /\ (dropPhase = "joining") ~> (dropPhase = "returned")

====
